---- MODULE Spec2Model ----
(***************************************************************************)
(* File-history tracker of leafwiki (internal/search/history.go): the      *)
(* reconciliation pass CaptureFileHistory over a directory of Markdown     *)
(* files and the history query GetHistoryForPath over the append-only     *)
(* table file_history.                                                     *)
(*                                                                         *)
(* A string (a path, a query) is a sequence of tokens: "/" and "." and     *)
(* " " are the characters the code looks at, every other token is a run    *)
(* of characters without a slash, a dot or a space.                        *)
(***************************************************************************)
EXTENDS Integers, Sequences, FiniteSets, TLC

VARIABLES
    fs,        \* the data directory: path -> content of the file, or NoFile
    log,       \* table file_history, rows in id order
    clock,     \* the store's clock in whole seconds: the rows of one pass share
               \* a second and two writing passes are a second apart
    pc,        \* CaptureFileHistory: "idle", "running", "done" (returned nil
               \* and the directory has not changed since its scan)
    pending,   \* insertHistoryEntry calls the running pass has still to make
    startLen,  \* observer: number of rows when the last pass read the table
    scanned,   \* observer: the directory as the last pass scanned it
    prevScan,  \* observer: the directory as the pass before that scanned it
    nOps,      \* number of filesystem operations performed so far
    db,        \* SQLiteIndex.db: the database handle, or nil
    nErrs,     \* number of store errors that have happened so far
    abortLen,  \* observer: when the last pass follows, on an unchanged
               \* directory, a pass that returned an error, the number of
               \* rows that pass read; NoAbort otherwise
    recreated, \* observer: the paths at which a file has come into being
               \* after a moved row named them as its previous path
    streak,    \* observer: the passes since the last filesystem operation
               \* that had rows to append
    readAt,    \* observer: number of rows in the table when the last
               \* GetHistoryForPath call read it; NoRead before the first
    drv,       \* runHistoryRecorder: "new" (not started), "startup",
               \* "select", "pass" (inside CaptureFileHistory), "returned"
    stop,      \* Stop: the last statement it has executed
    historyReq,\* number of requests buffered in the channel historyReq
    tickC,     \* number of ticks buffered in the channel historyTick.C
    ev,        \* the goroutine that reads the fsnotify events: "new",
               \* "select", "handling" (an event of a Markdown file, the
               \* call of requestHistorySnapshot ahead), "exited", "panicked"
    inFlight,  \* observer: number of CaptureFileHistory calls of the
               \* driver that have begun and not returned
    asked,     \* observer: requestHistorySnapshot calls since the driver last
               \* received from historyReq: 0, 1, or 2 for two and more
    passes     \* observer: CaptureFileHistory calls the driver has begun:
               \* 0, 1 (the one at startup), or 2 for two and more

svars == <<fs, log, clock, pc, pending, startLen, scanned, prevScan, nOps,
           db, nErrs, abortLen, readAt, recreated, streak>>
wvars == <<drv, stop, historyReq, tickC, ev, inFlight, asked, passes>>
vars == <<svars, wvars>>

----------------------------------------------------------------------------
(* Bounds *)

\* filesystem operations in one run
MaxOps == 3
\* store errors injected
MaxErrs == 1
\* filesystem operations while the watcher is observed
MaxWatchedOps == 1

----------------------------------------------------------------------------
(* Strings *)

Slash == "/"
Dot == "."
Space == " "
DotMd == <<".", "md">>

IndexMd == <<"index", ".", "md">>
AIndexMd == <<"a", "/", "index", ".", "md">>
DIndexMd == <<"d", "/", "index", ".", "md">>
AMd == <<"a", ".", "md">>

Paths == {IndexMd, AIndexMd, DIndexMd, AMd}

NoFile == "<none>"
\* a file that is in the directory and that os.ReadFile fails on
Unreadable == "<unreadable>"
Contents == {"# note", "# note\nupdated"}

RECURSIVE LastIndexOf(_, _, _)
\* the greatest i <= n with s[i] = c, 0 when there is none
LastIndexOf(s, c, n) ==
    IF n = 0 THEN 0
    ELSE IF s[n] = c THEN n ELSE LastIndexOf(s, c, n - 1)

\* filepath.Base of a clean relative path: its last element
Base(p) == SubSeq(p, LastIndexOf(p, Slash, Len(p)) + 1, Len(p))

\* filepath.Ext: the suffix from the final dot of the last element, or ""
Ext(p) ==
    LET b == Base(p)
        i == LastIndexOf(b, Dot, Len(b))
    IN  IF i = 0 THEN <<>> ELSE SubSeq(b, i, Len(b))

RECURSIVE TrimLeft(_, _)
TrimLeft(s, c) ==
    IF s # <<>> /\ Head(s) = c THEN TrimLeft(Tail(s), c) ELSE s

RECURSIVE TrimRight(_, _)
TrimRight(s, c) ==
    IF s # <<>> /\ s[Len(s)] = c THEN TrimRight(SubSeq(s, 1, Len(s) - 1), c) ELSE s

TrimSpace(s) == TrimRight(TrimLeft(s, Space), Space)

RECURSIVE Clean(_)
\* filepath.Clean on paths without "." and ".." elements: repeated
\* separators collapse and a trailing separator goes
Clean(s) ==
    IF s = <<>> THEN <<>>
    ELSE IF Len(s) = 1 THEN s
    ELSE IF s[1] = Slash /\ s[2] = Slash THEN Clean(Tail(s))
    ELSE IF Len(s) = 2 /\ s[2] = Slash THEN <<s[1]>>
    ELSE <<s[1]>> \o Clean(Tail(s))

\* filepath.Join(a, b) for non-empty a and b
Join(a, b) == Clean(a \o <<Slash>> \o b)

\* the leading slashes are kept
normalizeHistoryPathKeepSlash(p) == TrimSpace(p)

normalizeHistoryPath(p) == TrimLeft(TrimSpace(p), Slash)

RECURSIVE Unique(_, _)
Unique(paths, seen) ==
    IF paths = <<>> THEN <<>>
    ELSE IF Head(paths) = <<>> \/ Head(paths) \in seen
         THEN Unique(Tail(paths), seen)
         ELSE <<Head(paths)>> \o Unique(Tail(paths), seen \cup {Head(paths)})

seedHistoryPaths(p) ==
    LET normalized == normalizeHistoryPath(p)
        paths == IF Ext(normalized) = <<>>
                 THEN <<normalized, normalized \o DotMd, Join(normalized, IndexMd)>>
                 ELSE <<normalized>>
    IN  IF normalized = <<>> THEN <<>> ELSE Unique(paths, {})

\* sha256 in hex: one digest per content, no collisions
hashBytes(content) ==
    CASE content = "# note" -> "sha256:note"
      [] content = "# note\nupdated" -> "sha256:updated"

\* a key on the content hash alone
movementKeyHashOnly(hash, relPath) == <<hash, "|">>

movementKey(hash, relPath) == <<hash, "|", Base(relPath)>>

----------------------------------------------------------------------------
(* The store *)

FileStatusCreated == "created"
FileStatusModified == "modified"
FileStatusDeleted == "deleted"
FileStatusMoved == "moved"

\* previous_path is nullable: {} is NULL, {p} is the path p
Null == {}
Ptr(p) == {p}
Deref(ptr) == CHOOSE p \in ptr : TRUE

\* the first row of each path instead of the last
latestFileSnapshotsFirst(rows) ==
    LET seen == {rows[i].path : i \in DOMAIN rows}
        minId(p) == CHOOSE i \in DOMAIN rows :
                        /\ rows[i].path = p
                        /\ \A j \in DOMAIN rows : rows[j].path = p => rows[j].id >= rows[i].id
    IN  [p \in seen |->
            LET r == rows[minId(p)]
            IN  [Path |-> r.path, Hash |-> r.hash, Content |-> r.content,
                 Status |-> r.status, PreviousPath |-> r.previous_path]]

\* MAX(id) ... GROUP BY path, joined back to the rows
latestFileSnapshots(rows) ==
    LET seen == {rows[i].path : i \in DOMAIN rows}
        maxId(p) == CHOOSE i \in DOMAIN rows :
                        /\ rows[i].path = p
                        /\ \A j \in DOMAIN rows : rows[j].path = p => rows[j].id <= rows[i].id
    IN  [p \in seen |->
            LET r == rows[maxId(p)]
            IN  [Path |-> r.path, Hash |-> r.hash, Content |-> r.content,
                 Status |-> r.status, PreviousPath |-> r.previous_path]]

\* A timestamp text is its layout and the second it names
LayoutRFC3339Nano == "2006-01-02T15:04:05.999999999Z07:00"
LayoutSpaceOffset == "2006-01-02 15:04:05Z07:00"
LayoutSpace == "2006-01-02 15:04:05"
TimestampText(layout, secs) == [layout |-> layout, secs |-> secs]
ZeroTime == 0

\* an INSERT that writes the row's own path where previousPath is nil
insertedRowOwnPathForNil(rows, now, call) ==
    [id |-> Len(rows) + 1, path |-> call.path, hash |-> call.hash,
     content |-> call.content, status |-> call.status,
     previous_path |-> IF call.previousPath = Null THEN Ptr(call.path) ELSE call.previousPath,
     recorded_at |-> TimestampText(LayoutSpace, now)]

\* an INSERT that gives the new row the id of the first row
insertedRowReusedId(rows, now, call) ==
    [id |-> 1, path |-> call.path, hash |-> call.hash,
     content |-> call.content, status |-> call.status,
     previous_path |-> call.previousPath,
     recorded_at |-> TimestampText(LayoutSpace, now)]

\* INSERT INTO file_history: id is AUTOINCREMENT, recorded_at the store's
\* clock in the text form SQLite writes
insertedRow(rows, now, call) ==
    [id |-> Len(rows) + 1, path |-> call.path, hash |-> call.hash,
     content |-> call.content, status |-> call.status,
     previous_path |-> call.previousPath,
     recorded_at |-> TimestampText(LayoutSpace, now)]

\* filepath.WalkDir keeping the regular files whose extension is ".md"; a
\* file that cannot be read is logged and left out (lines 280-284)
scanMarkdownFiles(dir) ==
    [p \in {q \in DOMAIN dir : dir[q] \notin {NoFile, Unreadable} /\ Ext(q) = DotMd} |->
        [Hash |-> hashBytes(dir[p]), Content |-> dir[p]]]

NoError == "nil"

\* a scan that returns the read error of a file
scanMarkdownFilesErrOnRead(dir) ==
    IF \E p \in DOMAIN dir : dir[p] = Unreadable THEN "read error" ELSE NoError

\* the error scanMarkdownFiles returns: the callback returns nil on every
\* path, so WalkDir returns nil (lines 264-267, 274-284, 293-297)
scanMarkdownFilesErr(dir) == NoError

----------------------------------------------------------------------------
(* CaptureFileHistory: Go iterates a map in an unspecified order, so every *)
(* range loop runs over some enumeration of the map's keys.                *)

Orders(S) ==
    {o \in [1..Cardinality(S) -> S] : \A i, j \in 1..Cardinality(S) : o[i] = o[j] => i = j}

Call(path, hash, content, status, previousPath) ==
    [path |-> path, hash |-> hash, content |-> content, status |-> status,
     previousPath |-> previousPath]

Candidates(moveCandidates, key) ==
    IF key \in DOMAIN moveCandidates THEN moveCandidates[key] ELSE <<>>

SetCandidates(moveCandidates, key, snaps) ==
    [k \in DOMAIN moveCandidates \cup {key} |->
        IF k = key THEN snaps ELSE moveCandidates[k]]

aliasPathsOf(latest) ==
    {Deref(latest[p].PreviousPath) : p \in {q \in DOMAIN latest : latest[q].PreviousPath # Null}}

RECURSIVE CollectMissingAll(_, _, _, _, _, _)
\* history.go 67-80 with the test of line 73 left out: every path with rows
\* that is no alias is taken for a missing one
CollectMissingAll(order, latest, currentFiles, aliasPaths, missing, moveCandidates) ==
    IF order = <<>> THEN [missing |-> missing, moveCandidates |-> moveCandidates]
    ELSE
        LET path == Head(order)
            snap == latest[path]
        IN  IF path \in aliasPaths
            THEN CollectMissingAll(Tail(order), latest, currentFiles, aliasPaths,
                                   missing, moveCandidates)
            ELSE CollectMissingAll(Tail(order), latest, currentFiles, aliasPaths,
                    [q \in DOMAIN missing \cup {path} |->
                        IF q = path THEN snap ELSE missing[q]],
                    IF snap.Status # FileStatusDeleted
                    THEN SetCandidates(moveCandidates, movementKey(snap.Hash, path),
                            Append(Candidates(moveCandidates, movementKey(snap.Hash, path)), snap))
                    ELSE moveCandidates)

RECURSIVE CollectMissing(_, _, _, _, _, _)
\* history.go 67-80, over the keys of latest in the order given
CollectMissing(order, latest, currentFiles, aliasPaths, missing, moveCandidates) ==
    IF order = <<>> THEN [missing |-> missing, moveCandidates |-> moveCandidates]
    ELSE
        LET path == Head(order)
            snap == latest[path]
        IN  IF path \in aliasPaths
            THEN CollectMissing(Tail(order), latest, currentFiles, aliasPaths,
                                missing, moveCandidates)
            ELSE IF path \notin DOMAIN currentFiles
            THEN CollectMissing(Tail(order), latest, currentFiles, aliasPaths,
                    [q \in DOMAIN missing \cup {path} |->
                        IF q = path THEN snap ELSE missing[q]],
                    IF snap.Status # FileStatusDeleted
                    THEN SetCandidates(moveCandidates, movementKey(snap.Hash, path),
                            Append(Candidates(moveCandidates, movementKey(snap.Hash, path)), snap))
                    ELSE moveCandidates)
            ELSE CollectMissing(Tail(order), latest, currentFiles, aliasPaths,
                                missing, moveCandidates)

NoEntry == "<no entry>"

\* without the test of line 86: a deleted latest row is compared like any other
knownPathStatusNoReappear(snap, hash) ==
    IF snap.Hash # hash THEN FileStatusModified
    ELSE NoEntry

\* without lines 94-99: a change of content is not recorded
knownPathStatusNeverModified(snap, hash) ==
    IF snap.Status = FileStatusDeleted THEN FileStatusCreated
    ELSE NoEntry

\* the hash comparison of line 94 turned around
knownPathStatusSameHash(snap, hash) ==
    IF snap.Status = FileStatusDeleted THEN FileStatusCreated
    ELSE IF snap.Hash = hash THEN FileStatusModified
    ELSE NoEntry

\* a path seen again is taken for a new one
knownPathStatusCreated(snap, hash) ==
    IF snap.Status = FileStatusDeleted THEN FileStatusCreated
    ELSE IF snap.Hash # hash THEN FileStatusCreated
    ELSE NoEntry

\* history.go 85-100: what is recorded for a path that has rows already
knownPathStatus(snap, hash) ==
    IF snap.Status = FileStatusDeleted THEN FileStatusCreated
    ELSE IF snap.Hash # hash THEN FileStatusModified
    ELSE NoEntry

RECURSIVE ClassifyCurrentKeepMissing(_, _, _, _, _, _)
\* history.go 82-119 without the delete of line 107: the source of a move
\* stays in missing
ClassifyCurrentKeepMissing(order, latest, currentFiles, missing, moveCandidates, calls) ==
    IF order = <<>> THEN [missing |-> missing, calls |-> calls]
    ELSE
        LET relPath == Head(order)
            hash == currentFiles[relPath].Hash
            content == currentFiles[relPath].Content
            key == movementKey(hash, relPath)
            snaps == Candidates(moveCandidates, key)
        IN  IF relPath \in DOMAIN latest
            THEN ClassifyCurrentKeepMissing(Tail(order), latest, currentFiles, missing,
                    moveCandidates,
                    IF knownPathStatus(latest[relPath], hash) = NoEntry
                    THEN calls
                    ELSE Append(calls, Call(relPath, hash, content,
                                            knownPathStatus(latest[relPath], hash), Null)))
            ELSE IF Len(snaps) > 0
            THEN ClassifyCurrentKeepMissing(Tail(order), latest, currentFiles, missing,
                    SetCandidates(moveCandidates, key, Tail(snaps)),
                    Append(calls, Call(relPath, hash, content, FileStatusMoved,
                                       Ptr(snaps[1].Path))))
            ELSE ClassifyCurrentKeepMissing(Tail(order), latest, currentFiles, missing,
                    moveCandidates,
                    Append(calls, Call(relPath, hash, content, FileStatusCreated, Null)))

RECURSIVE ClassifyCurrentMoveFirst(_, _, _, _, _, _)
\* history.go 82-119 with the search for a move candidate (103-113) put
\* before the look at the path's latest row (85-101)
ClassifyCurrentMoveFirst(order, latest, currentFiles, missing, moveCandidates, calls) ==
    IF order = <<>> THEN [missing |-> missing, calls |-> calls]
    ELSE
        LET relPath == Head(order)
            hash == currentFiles[relPath].Hash
            content == currentFiles[relPath].Content
            key == movementKey(hash, relPath)
            snaps == Candidates(moveCandidates, key)
        IN  IF Len(snaps) > 0
            THEN ClassifyCurrentMoveFirst(Tail(order), latest, currentFiles,
                    [q \in DOMAIN missing \ {snaps[1].Path} |-> missing[q]],
                    SetCandidates(moveCandidates, key, Tail(snaps)),
                    Append(calls, Call(relPath, hash, content, FileStatusMoved,
                                       Ptr(snaps[1].Path))))
            ELSE IF relPath \in DOMAIN latest
            THEN ClassifyCurrentMoveFirst(Tail(order), latest, currentFiles, missing,
                    moveCandidates,
                    IF knownPathStatus(latest[relPath], hash) = NoEntry
                    THEN calls
                    ELSE Append(calls, Call(relPath, hash, content,
                                            knownPathStatus(latest[relPath], hash), Null)))
            ELSE ClassifyCurrentMoveFirst(Tail(order), latest, currentFiles, missing,
                    moveCandidates,
                    Append(calls, Call(relPath, hash, content, FileStatusCreated, Null)))

RECURSIVE ClassifyCurrentKeepCandidate(_, _, _, _, _, _)
\* history.go 82-119 without the assignment of line 106: the candidate taken
\* stays first in its list
ClassifyCurrentKeepCandidate(order, latest, currentFiles, missing, moveCandidates, calls) ==
    IF order = <<>> THEN [missing |-> missing, calls |-> calls]
    ELSE
        LET relPath == Head(order)
            hash == currentFiles[relPath].Hash
            content == currentFiles[relPath].Content
            key == movementKey(hash, relPath)
            snaps == Candidates(moveCandidates, key)
        IN  IF relPath \in DOMAIN latest
            THEN ClassifyCurrentKeepCandidate(Tail(order), latest, currentFiles, missing,
                    moveCandidates,
                    IF knownPathStatus(latest[relPath], hash) = NoEntry
                    THEN calls
                    ELSE Append(calls, Call(relPath, hash, content,
                                            knownPathStatus(latest[relPath], hash), Null)))
            ELSE IF Len(snaps) > 0
            THEN ClassifyCurrentKeepCandidate(Tail(order), latest, currentFiles,
                    [q \in DOMAIN missing \ {snaps[1].Path} |-> missing[q]],
                    moveCandidates,
                    Append(calls, Call(relPath, hash, content, FileStatusMoved,
                                       Ptr(snaps[1].Path))))
            ELSE ClassifyCurrentKeepCandidate(Tail(order), latest, currentFiles, missing,
                    moveCandidates,
                    Append(calls, Call(relPath, hash, content, FileStatusCreated, Null)))

RECURSIVE ClassifyCurrent(_, _, _, _, _, _)
\* history.go 82-119, over the keys of currentFiles in the order given
ClassifyCurrent(order, latest, currentFiles, missing, moveCandidates, calls) ==
    IF order = <<>> THEN [missing |-> missing, calls |-> calls]
    ELSE
        LET relPath == Head(order)
            hash == currentFiles[relPath].Hash
            content == currentFiles[relPath].Content
            key == movementKey(hash, relPath)
            snaps == Candidates(moveCandidates, key)
        IN  IF relPath \in DOMAIN latest
            THEN ClassifyCurrent(Tail(order), latest, currentFiles, missing, moveCandidates,
                    IF knownPathStatus(latest[relPath], hash) = NoEntry
                    THEN calls
                    ELSE Append(calls, Call(relPath, hash, content,
                                            knownPathStatus(latest[relPath], hash), Null)))
            ELSE IF Len(snaps) > 0
            THEN LET prev == snaps[1]
                 IN  ClassifyCurrent(Tail(order), latest, currentFiles,
                        [q \in DOMAIN missing \ {prev.Path} |-> missing[q]],
                        SetCandidates(moveCandidates, key, Tail(snaps)),
                        Append(calls, Call(relPath, hash, content, FileStatusMoved, Ptr(prev.Path))))
            ELSE ClassifyCurrent(Tail(order), latest, currentFiles, missing, moveCandidates,
                    Append(calls, Call(relPath, hash, content, FileStatusCreated, Null)))

RECURSIVE RecordDeletedNoContent(_, _, _)
\* the deleted row written without the content of the latest row
RecordDeletedNoContent(order, missing, calls) ==
    IF order = <<>> THEN calls
    ELSE
        LET snap == missing[Head(order)]
        IN  IF snap.Status = FileStatusDeleted
            THEN RecordDeletedNoContent(Tail(order), missing, calls)
            ELSE RecordDeletedNoContent(Tail(order), missing,
                    Append(calls, Call(snap.Path, snap.Hash, "", FileStatusDeleted, Null)))

RECURSIVE RecordDeletedAgain(_, _, _)
\* without the test of line 122: a deleted row for every missing path
RecordDeletedAgain(order, missing, calls) ==
    IF order = <<>> THEN calls
    ELSE
        LET snap == missing[Head(order)]
        IN  RecordDeletedAgain(Tail(order), missing,
                Append(calls, Call(snap.Path, snap.Hash, snap.Content, FileStatusDeleted, Null)))

RECURSIVE RecordDeleted(_, _, _)
\* history.go 121-129, over the keys of missing in the order given
RecordDeleted(order, missing, calls) ==
    IF order = <<>> THEN calls
    ELSE
        LET snap == missing[Head(order)]
        IN  IF snap.Status = FileStatusDeleted
            THEN RecordDeleted(Tail(order), missing, calls)
            ELSE RecordDeleted(Tail(order), missing,
                    Append(calls, Call(snap.Path, snap.Hash, snap.Content, FileStatusDeleted, Null)))

\* the sequences of insertHistoryEntry calls one pass can make
CaptureFileHistoryCalls(currentFiles, latest) ==
    LET aliasPaths == aliasPathsOf(latest)
        first == {CollectMissing(o, latest, currentFiles, aliasPaths, <<>>, <<>>) :
                    o \in Orders(DOMAIN latest)}
        second == UNION {{ClassifyCurrent(o, latest, currentFiles, r.missing, r.moveCandidates, <<>>) :
                            o \in Orders(DOMAIN currentFiles)} : r \in first}
    IN  UNION {{RecordDeleted(o, r.missing, r.calls) : o \in Orders(DOMAIN r.missing)} :
                r \in second}

----------------------------------------------------------------------------
(* GetHistoryForPath *)

parseSQLiteTimestamp(value) ==
    IF value.layout \in {LayoutRFC3339Nano, LayoutSpaceOffset, LayoutSpace}
    THEN value.secs
    ELSE ZeroTime

RECURSIVE OrderRows(_)
\* ORDER BY recorded_at DESC, id DESC
OrderRows(S) ==
    IF S = {} THEN <<>>
    ELSE LET first == CHOOSE r \in S : \A o \in S :
                        \/ o.recorded_at.secs < r.recorded_at.secs
                        \/ o.recorded_at.secs = r.recorded_at.secs /\ o.id <= r.id
         IN  <<first>> \o OrderRows(S \ {first})

\* the query without "OR previous_path = ?"
selectHistoryRowsByPath(rows, current) ==
    OrderRows({rows[i] : i \in {j \in DOMAIN rows : rows[j].path = current}})

\* SELECT ... WHERE path = ? OR previous_path = ? ORDER BY ...
selectHistoryRows(rows, current) ==
    OrderRows({rows[i] : i \in {j \in DOMAIN rows :
                  rows[j].path = current \/ rows[j].previous_path = Ptr(current)}})

\* the walk stays at the paths it was seeded with
enqueueNothing(queue, visited, row) == queue

\* history.go 225-230: a row that carries a previous path sends the walk there
enqueuePrevious(queue, visited, row) ==
    IF row.previous_path # Null /\ Deref(row.previous_path) \notin visited
    THEN Append(queue, Deref(row.previous_path))
    ELSE queue

RECURSIVE ScanHistoryRows(_, _, _, _, _)
\* history.go 217-239: the rows of one query
ScanHistoryRows(rows, visited, queue, seenIDs, entries) ==
    IF rows = <<>> THEN [queue |-> queue, seenIDs |-> seenIDs, entries |-> entries]
    ELSE
        LET row == Head(rows)
            entry == [ID |-> row.id, Path |-> row.path, Hash |-> row.hash,
                      Content |-> row.content, Status |-> row.status,
                      PreviousPath |-> row.previous_path,
                      RecordedAt |-> parseSQLiteTimestamp(row.recorded_at)]
            queue1 == enqueuePrevious(queue, visited, row)
        IN  IF row.id \in seenIDs
            THEN ScanHistoryRows(Tail(rows), visited, queue1, seenIDs, entries)
            ELSE ScanHistoryRows(Tail(rows), visited, queue1, seenIDs \cup {row.id},
                                 Append(entries, entry))

RECURSIVE WalkHistory(_, _, _, _, _)
\* history.go 199-244: the work queue
WalkHistory(rows, queue, visited, seenIDs, entries) ==
    IF queue = <<>> THEN entries
    ELSE
        LET current == Head(queue)
        IN  IF current \in visited
            THEN WalkHistory(rows, Tail(queue), visited, seenIDs, entries)
            ELSE LET r == ScanHistoryRows(selectHistoryRows(rows, current),
                                          visited \cup {current}, Tail(queue), seenIDs, entries)
                 IN  WalkHistory(rows, r.queue, visited \cup {current}, r.seenIDs, r.entries)

RECURSIVE WalkHistoryVisits(_, _, _, _)
\* history.go 199-212: the paths the work queue runs its query for, in order
WalkHistoryVisits(rows, queue, visited, visits) ==
    IF queue = <<>> THEN visits
    ELSE
        LET current == Head(queue)
        IN  IF current \in visited
            THEN WalkHistoryVisits(rows, Tail(queue), visited, visits)
            ELSE LET r == ScanHistoryRows(selectHistoryRows(rows, current),
                                          visited \cup {current}, Tail(queue), {}, <<>>)
                 IN  WalkHistoryVisits(rows, r.queue, visited \cup {current},
                                       Append(visits, current))

\* ties broken by the lower id
historyLessLowerIdFirst(a, b) ==
    IF a.RecordedAt = b.RecordedAt THEN a.ID < b.ID ELSE a.RecordedAt > b.RecordedAt

\* history.go 246-251: the comparator handed to sort.Slice
historyLess(a, b) ==
    IF a.RecordedAt = b.RecordedAt THEN a.ID > b.ID ELSE a.RecordedAt > b.RecordedAt

RECURSIVE InsertEntry(_, _)
InsertEntry(sorted, e) ==
    IF sorted = <<>> THEN <<e>>
    ELSE IF historyLess(e, Head(sorted)) THEN <<e>> \o sorted
    ELSE <<Head(sorted)>> \o InsertEntry(Tail(sorted), e)

RECURSIVE sortSlice(_)
sortSlice(entries) ==
    IF entries = <<>> THEN <<>>
    ELSE InsertEntry(sortSlice(Tail(entries)), Head(entries))

GetHistoryForPath(rows, path) ==
    sortSlice(WalkHistory(rows, seedHistoryPaths(path), {}, {}, <<>>))

----------------------------------------------------------------------------
(* State machine *)

EmptyDir == [p \in Paths |-> NoFile]

DbOpen == "open"
DbNil == "nil"
NoAbort == -1
NoRead == -1

\* NewWatcher: no channel, no ticker, no goroutine yet
InitWatcher ==
    /\ drv = "new"
    /\ stop = "none"
    /\ historyReq = 0
    /\ tickC = 0
    /\ ev = "new"
    /\ inFlight = 0
    /\ asked = 0
    /\ passes = 0

\* the index on a fresh database, with the handle given
InitStore(handle) ==
    /\ db = handle
    /\ nErrs = 0
    /\ abortLen = NoAbort
    /\ readAt = NoRead
    /\ recreated = {}
    /\ streak = 0

\* the directory the wiki is started on: empty, or holding one page
InitialDirs == {EmptyDir, [EmptyDir EXCEPT ![IndexMd] = "# note"]}

InitFiles ==
    /\ fs \in InitialDirs
    /\ log = <<>>
    /\ clock = 0
    /\ pc = "idle"
    /\ pending = <<>>
    /\ startLen = 0
    /\ scanned = EmptyDir
    /\ prevScan = EmptyDir
    /\ nOps = 0

Init ==
    /\ InitFiles
    /\ InitStore(DbOpen)
    /\ InitWatcher

\* the paths that moved rows name as previous path
MoveSources(rows) ==
    {Deref(rows[i].previous_path) : i \in {k \in DOMAIN rows : rows[k].status = FileStatusMoved}}

\* a filesystem operation happens between two scans
FsStep(dir) ==
    /\ pc # "running"
    /\ nOps < MaxOps
    /\ fs' = dir
    /\ nOps' = nOps + 1
    /\ pc' = "idle"
    /\ startLen' = Len(log)
    /\ prevScan' = scanned
    /\ abortLen' = NoAbort
    /\ recreated' = recreated \cup
            {p \in MoveSources(log) : fs[p] = NoFile /\ dir[p] # NoFile}
    /\ streak' = 0
    /\ UNCHANGED <<log, clock, pending, scanned, db, nErrs, readAt>>

WriteFile(p, c) ==
    /\ fs[p] # c
    /\ FsStep([fs EXCEPT ![p] = c])

Remove(p) ==
    /\ fs[p] # NoFile
    /\ FsStep([fs EXCEPT ![p] = NoFile])

Rename(p, q) ==
    /\ fs[p] # NoFile
    /\ p # q
    /\ FsStep([fs EXCEPT ![q] = fs[p], ![p] = NoFile])

\* history.go 45-58 and the classification of 60-129: the scan, the read of
\* the latest rows and the calls this pass goes on to make
CaptureFileHistory ==
    /\ pc # "running"
    /\ db # DbNil
    /\ IF scanMarkdownFilesErr(fs) # NoError
       THEN /\ pending' = <<>>
            /\ pc' = "failed"
            /\ clock' = clock
            /\ streak' = streak
       ELSE \E calls \in CaptureFileHistoryCalls(scanMarkdownFiles(fs), latestFileSnapshots(log)) :
            /\ pending' = calls
            /\ pc' = IF calls = <<>> THEN "done" ELSE "running"
            /\ clock' = IF calls = <<>> THEN clock ELSE clock + 1
            /\ streak' = IF calls # <<>> /\ streak <= Cardinality(Paths)
                         THEN streak + 1 ELSE streak
    /\ startLen' = Len(log)
    /\ scanned' = fs
    /\ prevScan' = scanned
    /\ abortLen' = IF pc = "failed" /\ scanned = fs THEN startLen ELSE NoAbort
    /\ UNCHANGED <<fs, log, nOps, db, nErrs, readAt, recreated>>

\* history.go 168-183: one INSERT under the mutex; after the last one
\* CaptureFileHistory returns nil
insertHistoryEntry ==
    /\ pc = "running"
    /\ log' = Append(log, insertedRow(log, clock, Head(pending)))
    /\ pending' = Tail(pending)
    /\ pc' = IF Tail(pending) = <<>> THEN "done" ELSE "running"
    /\ UNCHANGED <<fs, clock, startLen, scanned, prevScan, nOps, db, nErrs,
                   abortLen, readAt, recreated, streak>>

Next ==
    \/ (\E p \in Paths, c \in Contents : WriteFile(p, c)) /\ UNCHANGED wvars
    \/ (\E p \in Paths : Remove(p)) /\ UNCHANGED wvars
    \/ (\E p, q \in Paths : Rename(p, q)) /\ UNCHANGED wvars
    \/ CaptureFileHistory /\ UNCHANGED wvars
    \/ insertHistoryEntry /\ UNCHANGED wvars

Spec == Init /\ [][Next]_vars

\* a file loses its read permission; a WriteFile stands for getting it back
MakeUnreadable(p) ==
    /\ fs[p] \notin {NoFile, Unreadable}
    /\ FsStep([fs EXCEPT ![p] = Unreadable])

NextScanErrors ==
    \/ Next
    \/ (\E p \in Paths : MakeUnreadable(p)) /\ UNCHANGED wvars

SpecScanErrors == Init /\ [][NextScanErrors]_vars

\* a call of CaptureFileHistory would change the state: it is not the
\* repeat, with nothing to append, of a pass that appended nothing
PassCanBegin ==
    /\ pc # "running"
    /\ db # DbNil
    /\ \/ pc # "done"
       \/ startLen # Len(log)
       \/ scanned # fs
       \/ prevScan # scanned
       \/ abortLen # NoAbort
       \/ \E calls \in CaptureFileHistoryCalls(scanMarkdownFiles(fs), latestFileSnapshots(log)) :
              calls # <<>>

\* the steps of Next that are calls of CaptureFileHistory
PassBegins ==
    /\ pc # "running"
    /\ pc' \in {"running", "done"}
    /\ scanned' = fs
    /\ startLen' = Len(log)
    /\ UNCHANGED <<fs, log, nOps>>

\* passes go on being triggered (the ticker of part_002 175-178) and a pass
\* that has begun makes its calls: weak fairness of insertHistoryEntry and
\* of CaptureFileHistory, the latter written out, PassCanBegin being its
\* enabling condition
SpecRecurring ==
    /\ Spec
    /\ WF_vars(insertHistoryEntry /\ UNCHANGED wvars)
    /\ ([]<>(~PassCanBegin) \/ []<><<PassBegins>>_vars)

----------------------------------------------------------------------------
(* The store under errors and with a reader *)

\* history.go 46-48: no database handle
CaptureFileHistoryNoDb ==
    /\ pc # "running"
    /\ db = DbNil
    /\ pc' = "failed"
    /\ startLen' = Len(log)
    /\ abortLen' = NoAbort
    /\ UNCHANGED <<fs, log, clock, pending, scanned, prevScan, nOps, db, nErrs, readAt, recreated, streak>>

\* history.go 55-58: the directory is scanned and the read of the latest
\* rows fails
latestFileSnapshotsError ==
    /\ pc # "running"
    /\ db # DbNil
    /\ nErrs < MaxErrs
    /\ nErrs' = nErrs + 1
    /\ pc' = "failed"
    /\ startLen' = Len(log)
    /\ scanned' = fs
    /\ prevScan' = scanned
    /\ abortLen' = NoAbort
    /\ UNCHANGED <<fs, log, clock, pending, nOps, db, readAt, recreated, streak>>

\* an INSERT that reports an error after the row has been written
insertHistoryEntryErrorAfterWrite ==
    /\ pc = "running"
    /\ nErrs < MaxErrs
    /\ nErrs' = nErrs + 1
    /\ pc' = "failed"
    /\ pending' = <<>>
    /\ log' = Append(log, insertedRow(log, clock, Head(pending)))
    /\ UNCHANGED <<fs, clock, startLen, scanned, prevScan, nOps, db, abortLen, readAt, recreated, streak>>

\* an INSERT fails: insertHistoryEntry returns the error and so does
\* CaptureFileHistory (lines 87-89, 95-97, 108-110, 115-117, 125-127)
insertHistoryEntryError ==
    /\ pc = "running"
    /\ nErrs < MaxErrs
    /\ nErrs' = nErrs + 1
    /\ pc' = "failed"
    /\ pending' = <<>>
    /\ UNCHANGED <<fs, log, clock, startLen, scanned, prevScan, nOps, db, abortLen, readAt, recreated, streak>>

\* a request for a page's history: GetHistoryForPath takes the mutex and
\* reads the table as it is
GetPageHistoryHandler ==
    /\ db # DbNil
    /\ readAt' = Len(log)
    /\ UNCHANGED <<fs, log, clock, pc, pending, startLen, scanned, prevScan, nOps,
                   db, nErrs, abortLen, recreated, streak>>

InitAnyHandle ==
    /\ InitFiles
    /\ \E handle \in {DbOpen, DbNil} : InitStore(handle)
    /\ InitWatcher

NextStore ==
    \/ Next
    \/ CaptureFileHistoryNoDb /\ UNCHANGED wvars
    \/ latestFileSnapshotsError /\ UNCHANGED wvars
    \/ insertHistoryEntryError /\ UNCHANGED wvars

SpecStore == InitAnyHandle /\ [][NextStore]_vars

----------------------------------------------------------------------------
(* The watcher: Start, the goroutine runHistoryRecorder (the driver), the *)
(* goroutine of the fsnotify events, and Stop                             *)

\* a channel that buffers two requests
historyReqCapTwo == 1 + 1
\* a channel without a buffer
historyReqCapNone == 1 - 1
\* make(chan struct{}, 1)
historyReqCap == 1

\* where the driver is while its call of CaptureFileHistory runs: the call
\* is an ordinary one, the calling goroutine is inside it
CallPositionAsync == "select"
CallPosition == "pass"

StopChClosed == stop \in {"stopCh", "historyReq", "closed"}
HistoryReqClosed == stop \in {"historyReq", "closed"}

\* a driver that goes to its select without the pass at startup
StartWithoutStartupPass ==
    /\ drv = "new"
    /\ drv' = "select"
    /\ ev' = "select"
    /\ stop' = "none"
    /\ historyReq' = 0
    /\ tickC' = 0
    /\ UNCHANGED <<inFlight, asked, passes>>
    /\ UNCHANGED svars

\* part_002 39-68 and 70-161: the channels, the ticker, the two goroutines
Start ==
    /\ drv = "new"
    /\ drv' = "startup"
    /\ ev' = "select"
    /\ stop' = "none"
    /\ historyReq' = 0
    /\ tickC' = 0
    /\ UNCHANGED <<inFlight, asked, passes>>
    /\ UNCHANGED svars

\* the ticker fires: a tick is buffered unless one is waiting already
Tick ==
    /\ drv # "new"
    /\ stop = "none"
    /\ tickC = 0
    /\ tickC' = 1
    /\ UNCHANGED <<drv, stop, historyReq, ev, inFlight, asked, passes>>
    /\ UNCHANGED svars

\* CaptureFileHistory is entered and comes to its first INSERT or returns
BeginPass ==
    \/ CaptureFileHistory
    \/ CaptureFileHistoryNoDb
    \/ latestFileSnapshotsError

\* part_002 168-171: the pass at startup
DriverStartupPass ==
    /\ drv = "startup"
    /\ BeginPass
    /\ drv' = CallPosition
    /\ inFlight' = inFlight + 1
    /\ passes' = IF passes < 2 THEN passes + 1 ELSE passes
    /\ UNCHANGED <<stop, historyReq, tickC, ev, asked>>

\* part_002 175-178
DriverTick ==
    /\ drv = "select"
    /\ tickC > 0
    /\ tickC' = tickC - 1
    /\ BeginPass
    /\ drv' = CallPosition
    /\ inFlight' = inFlight + 1
    /\ passes' = IF passes < 2 THEN passes + 1 ELSE passes
    /\ UNCHANGED <<stop, historyReq, ev, asked>>

\* part_002 179-182: a buffered request is received, or the zero value of
\* the closed channel
DriverRequest ==
    /\ drv = "select"
    /\ historyReq > 0 \/ HistoryReqClosed
    /\ historyReq' = IF historyReq > 0 THEN historyReq - 1 ELSE 0
    /\ BeginPass
    /\ drv' = CallPosition
    /\ inFlight' = inFlight + 1
    /\ asked' = 0
    /\ passes' = IF passes < 2 THEN passes + 1 ELSE passes
    /\ UNCHANGED <<stop, tickC, ev>>

\* the INSERTs of the pass the driver is in
DriverPassStep ==
    /\ drv = "pass"
    /\ insertHistoryEntry \/ insertHistoryEntryError
    /\ UNCHANGED wvars

\* a driver that leaves its loop when CaptureFileHistory returns an error
DriverPassReturnEndsOnError ==
    /\ drv = "pass"
    /\ pc # "running"
    /\ drv' = IF pc = "failed" THEN "returned" ELSE "select"
    /\ inFlight' = inFlight - 1
    /\ UNCHANGED <<stop, historyReq, tickC, ev, asked, passes>>
    /\ UNCHANGED svars

\* CaptureFileHistory has returned; an error is logged
DriverPassReturn ==
    /\ drv = "pass"
    /\ pc # "running"
    /\ drv' = "select"
    /\ inFlight' = inFlight - 1
    /\ UNCHANGED <<stop, historyReq, tickC, ev, asked, passes>>
    /\ UNCHANGED svars

\* part_002 183-184
DriverStop ==
    /\ drv = "select"
    /\ StopChClosed
    /\ drv' = "returned"
    /\ UNCHANGED <<stop, historyReq, tickC, ev, inFlight, asked, passes>>
    /\ UNCHANGED svars

\* part_002 73-148: an event of a Markdown file is received and handled up
\* to the call of requestHistorySnapshot
ReceiveEvent ==
    /\ ev = "select"
    /\ stop # "closed"
    /\ ev' = "handling"
    /\ UNCHANGED <<drv, stop, historyReq, tickC, inFlight, asked, passes>>
    /\ UNCHANGED svars

\* part_002 205-213: the send if the buffer has room, the default branch if
\* it is full; a send on the closed channel panics and the process ends
requestHistorySnapshot ==
    /\ ev = "handling"
    /\ IF HistoryReqClosed
       THEN /\ ev' = "panicked"
            /\ drv' = "panicked"
            /\ UNCHANGED <<historyReq, asked, passes>>
       ELSE /\ ev' = "select"
            /\ historyReq' = IF historyReq < historyReqCap THEN historyReq + 1 ELSE historyReq
            /\ asked' = IF asked < 2 THEN asked + 1 ELSE asked
            /\ UNCHANGED drv
    /\ UNCHANGED <<stop, tickC, inFlight, passes>>
    /\ UNCHANGED svars

\* part_002 73-76: the channel of events is closed
EventLoopExit ==
    /\ ev = "select"
    /\ stop = "closed"
    /\ ev' = "exited"
    /\ UNCHANGED <<drv, stop, historyReq, tickC, inFlight, asked, passes>>
    /\ UNCHANGED svars

\* Stop, statement by statement: part_002 190-192, 193-195, 196-198, 199-201
StopStep(from, to) ==
    /\ drv \notin {"new", "panicked"}
    /\ stop = from
    /\ stop' = to
    /\ UNCHANGED <<drv, historyReq, tickC, ev, inFlight, asked, passes>>
    /\ UNCHANGED svars

StopTicker == StopStep("none", "ticker")
StopCloseStopCh == StopStep("ticker", "stopCh")
StopCloseHistoryReq == StopStep("stopCh", "historyReq")
StopCloseWatcher == StopStep("historyReq", "closed")

Stop ==
    \/ StopTicker
    \/ StopCloseStopCh
    \/ StopCloseHistoryReq
    \/ StopCloseWatcher

\* a file is written, removed or renamed in the watched directory
WatchedFsStep ==
    /\ nOps < MaxWatchedOps
    /\ \/ \E p \in Paths, c \in Contents : WriteFile(p, c)
       \/ \E p \in Paths : Remove(p)
       \/ \E p, q \in Paths : Rename(p, q)
    /\ UNCHANGED wvars

NextWatcher ==
    \/ Start
    \/ Tick
    \/ DriverStartupPass
    \/ DriverTick
    \/ DriverRequest
    \/ DriverPassStep
    \/ DriverPassReturn
    \/ DriverStop
    \/ ReceiveEvent
    \/ requestHistorySnapshot
    \/ EventLoopExit
    \/ Stop
    \/ WatchedFsStep
    \/ GetPageHistoryHandler /\ UNCHANGED wvars

SpecWatcher == InitAnyHandle /\ [][NextWatcher]_vars

\* Stop, once called, executes its statements; a goroutine that can run does
\* run; the select of the driver chooses among the ready cases at random,
\* so a case that is ready again and again is chosen at last
Fairness ==
    /\ WF_vars(Stop)
    /\ WF_vars(DriverStartupPass)
    /\ WF_vars(DriverPassStep)
    /\ WF_vars(DriverPassReturn)
    /\ SF_vars(DriverStop)

SpecWatcherFair == SpecWatcher /\ Fairness

\* part_002 168-171: the driver can begin its pass at startup
StartupPassCanBegin ==
    drv = "startup"

\* the steps of NextWatcher that are DriverStartupPass
StartupPassBegins ==
    /\ drv = "startup"
    /\ drv' = CallPosition
    /\ inFlight' = inFlight + 1

\* part_002 179: the receive of the select is ready
RequestCanBeReceived ==
    /\ drv = "select"
    /\ historyReq > 0 \/ HistoryReqClosed

\* the steps of NextWatcher that are DriverRequest
RequestIsReceived ==
    /\ RequestCanBeReceived
    /\ historyReq' = IF historyReq > 0 THEN historyReq - 1 ELSE 0
    /\ drv' = CallPosition
    /\ inFlight' = inFlight + 1
    /\ asked' = 0
    /\ UNCHANGED <<stop, tickC, ev>>

\* the same for a watcher that Stop may never be called on: the goroutine
\* of the driver runs when it can, and its select takes at last a request
\* that is ready again and again.  The weak fairness of DriverStartupPass
\* and the strong fairness of DriverRequest are written out,
\* StartupPassCanBegin and RequestCanBeReceived being their enabling
\* conditions
FairnessRunning ==
    /\ []<>(~StartupPassCanBegin) \/ []<><<StartupPassBegins>>_vars
    /\ WF_vars(DriverPassStep)
    /\ WF_vars(DriverPassReturn)
    /\ <>[](~RequestCanBeReceived) \/ []<><<RequestIsReceived>>_vars

SpecWatcherRunning == SpecWatcher /\ FairnessRunning

----------------------------------------------------------------------------
(* What a completed pass did.  In a state with pc = "done" the rows up to *)
(* startLen are the table the pass read, the rows after them are the ones *)
(* it appended, fs is the directory it scanned and prevScan the directory *)
(* the pass before it scanned.                                            *)

PassDone == pc = "done"
Known == latestFileSnapshots(SubSeq(log, 1, startLen))
Appended == (startLen + 1)..Len(log)
AppendedAt(p) == {i \in Appended : log[i].path = p}
KnownPresent(p) == p \in DOMAIN Known /\ Known[p].Status # FileStatusDeleted

\* the only row appended at p, when there is exactly one
OnlyRowAt(p) == log[CHOOSE i \in AppendedAt(p) : TRUE]

\* C1: a pass that scans the directory the pass before it scanned appends
\* no row.
C1_Idempotence ==
    (PassDone /\ prevScan = fs) => Appended = {}

\* The file that was at p at the last pass and has the content of p's latest
\* row is now at q, a path without rows and with p's base name; no other
\* path that is gone has p's hash and base name, and q is the only new path
\* with them.
RenamedTo(p, q) ==
    /\ p # q
    /\ KnownPresent(p)
    /\ prevScan[p] # NoFile
    /\ hashBytes(prevScan[p]) = Known[p].Hash
    /\ fs[p] = NoFile
    /\ fs[q] = prevScan[p]
    /\ q \notin DOMAIN Known
    /\ Base(q) = Base(p)
    /\ \A r \in DOMAIN Known \ {p} :
          ~(fs[r] = NoFile /\ Known[r].Hash = Known[p].Hash /\ Base(r) = Base(p))
    /\ \A r \in Paths \ (DOMAIN Known \cup {q}) :
          ~(fs[r] = fs[q] /\ Base(r) = Base(q))

\* C2: a rename of p to q is recorded by one row at q, moved from p, and
\* by no row at p.
C2_RenameRecordedAsMove ==
    PassDone =>
        \A p, q \in Paths :
            RenamedTo(p, q) =>
                /\ Cardinality(AppendedAt(q)) = 1
                /\ OnlyRowAt(q).status = FileStatusMoved
                /\ OnlyRowAt(q).previous_path = Ptr(p)
                /\ AppendedAt(p) = {}

\* the file that was at p at the last pass is gone and no path that has
\* appeared since has its hash and base name
RemovedFrom(p) ==
    /\ KnownPresent(p)
    /\ prevScan[p] # NoFile
    /\ fs[p] = NoFile
    /\ \A q \in Paths :
          ~(/\ fs[q] # NoFile
            /\ prevScan[q] = NoFile
            /\ hashBytes(fs[q]) = Known[p].Hash
            /\ Base(q) = Base(p))

\* C3: the removal of the file at p is recorded by exactly one row at p,
\* with status deleted.
C3_DeleteRecorded ==
    PassDone =>
        \A p \in Paths :
            RemovedFrom(p) =>
                /\ Cardinality(AppendedAt(p)) = 1
                /\ OnlyRowAt(p).status = FileStatusDeleted

\* a deletion candidate: a path with rows, not an alias, gone from the
\* directory, whose latest row is not a deleted one
DeletionCandidate(p) ==
    /\ KnownPresent(p)
    /\ p \notin aliasPathsOf(Known)
    /\ fs[p] = NoFile

\* a file is at q, q has no rows, and no deletion candidate has its hash and
\* base name
AppearedAt(q) ==
    /\ fs[q] # NoFile
    /\ q \notin DOMAIN Known
    /\ \A p \in Paths :
          ~(/\ DeletionCandidate(p)
            /\ Known[p].Hash = hashBytes(fs[q])
            /\ Base(p) = Base(q))

\* C4: a file at a path without rows, matched by no deletion candidate, is
\* recorded by exactly one row: created, no previous path, the hash and
\* content scanned.
C4_CreateRecorded ==
    PassDone =>
        \A q \in Paths :
            AppearedAt(q) =>
                /\ Cardinality(AppendedAt(q)) = 1
                /\ OnlyRowAt(q).status = FileStatusCreated
                /\ OnlyRowAt(q).previous_path = Null
                /\ OnlyRowAt(q).hash = hashBytes(fs[q])
                /\ OnlyRowAt(q).content = fs[q]

\* a pass recorded a new file although a file of the same content but
\* another base name went away in the same pass, and another although an
\* alias path of its hash and base name is gone
C4_Witness ==
    /\ PassDone
    /\ \E q \in Paths :
          /\ AppearedAt(q)
          /\ \E p \in Paths :
                DeletionCandidate(p) /\ Known[p].Hash = hashBytes(fs[q]) /\ Base(p) # Base(q)
    /\ \E q \in Paths :
          /\ AppearedAt(q)
          /\ \E p \in aliasPathsOf(Known) :
                /\ KnownPresent(p) /\ fs[p] = NoFile
                /\ Known[p].Hash = hashBytes(fs[q]) /\ Base(p) = Base(q)

\* the file at p has another hash than p's latest row, which is not a
\* deleted one
ChangedAt(p) ==
    /\ KnownPresent(p)
    /\ fs[p] # NoFile
    /\ hashBytes(fs[p]) # Known[p].Hash

\* C5: a change of content at a path whose latest row is not deleted is
\* recorded by exactly one row at that path: modified, the new hash, no
\* previous path.
C5_ModifyRecorded ==
    PassDone =>
        \A p \in Paths :
            ChangedAt(p) =>
                /\ Cardinality(AppendedAt(p)) = 1
                /\ OnlyRowAt(p).status = FileStatusModified
                /\ OnlyRowAt(p).hash = hashBytes(fs[p])
                /\ OnlyRowAt(p).hash # Known[p].Hash
                /\ OnlyRowAt(p).previous_path = Null

\* a pass recorded the change of a file that stayed at its path, next to
\* other rows
C5_Witness ==
    /\ PassDone
    /\ \E p \in Paths : ChangedAt(p) /\ prevScan[p] # NoFile /\ prevScan[p] # fs[p]
    /\ Cardinality(Appended) >= 2

\* C6: a file that two passes in a row scan at the same path with the same
\* content gets no row in the second.
C6_NoChangeStability ==
    PassDone =>
        \A p \in Paths :
            (fs[p] # NoFile /\ prevScan[p] = fs[p]) => AppendedAt(p) = {}

\* a pass appended rows for other paths while a file stayed as it was
C6_Witness ==
    /\ PassDone
    /\ \E p \in Paths : fs[p] # NoFile /\ prevScan[p] = fs[p] /\ KnownPresent(p)
    /\ Appended # {}

----------------------------------------------------------------------------
(* History queries *)

\* the route form of a path: the path without its extension
RouteOf(p) == SubSeq(p, 1, Len(p) - Len(Ext(p)))
WithSlash(p) == <<Slash>> \o p

Queries ==
    Paths \cup {RouteOf(p) : p \in Paths}
          \cup {WithSlash(p) : p \in Paths} \cup {WithSlash(RouteOf(p)) : p \in Paths}

IdsOf(h) == {h[k].ID : k \in DOMAIN h}

RECURSIVE BackwardPaths(_)
\* the paths reached from those of S along previous_path links
BackwardPaths(S) ==
    LET more == S \cup {Deref(log[i].previous_path) :
                        i \in {j \in DOMAIN log : log[j].path \in S /\ log[j].previous_path # Null}}
    IN  IF more = S THEN S ELSE BackwardPaths(more)

\* the table holds one file's life: created and modified at p, moved to q,
\* deleted there
Lifecycle(p, q) ==
    /\ Len(log) = 4
    /\ log[1].path = p /\ log[1].status = FileStatusCreated
    /\ log[2].path = p /\ log[2].status = FileStatusModified
    /\ log[3].path = q /\ log[3].status = FileStatusMoved /\ log[3].previous_path = Ptr(p)
    /\ log[4].path = q /\ log[4].status = FileStatusDeleted

\* C7: the history of q holds no row twice and holds every row recorded at
\* q or at a path reached from q along previous paths; after the life of
\* one file it is that file's four rows.
C7_HistoryFollowsPreviousPaths ==
    \A q \in Paths :
        LET h == GetHistoryForPath(log, q)
        IN  /\ \A i, j \in DOMAIN h : h[i].ID = h[j].ID => i = j
            /\ \A i \in DOMAIN log :
                  log[i].path \in BackwardPaths({q}) =>
                      \E k \in DOMAIN h :
                          /\ h[k].ID = log[i].id
                          /\ h[k].Path = log[i].path
                          /\ h[k].Status = log[i].status
                          /\ h[k].PreviousPath = log[i].previous_path
            /\ \A p \in Paths : Lifecycle(p, q) => Len(h) = 4 /\ IdsOf(h) = 1..4

C7_Witness ==
    \E p, q \in Paths :
        /\ Lifecycle(p, q)
        /\ pc = "done"
        /\ Len(GetHistoryForPath(log, q)) = 4
        /\ BackwardPaths({q}) = {p, q}

\* C8: a history is ordered newest first, rows of one second by falling id;
\* after the life of one file the statuses read deleted, moved, modified,
\* created.
C8_HistoryNewestFirst ==
    /\ \A q \in Queries :
          LET h == GetHistoryForPath(log, q)
          IN  \A k \in 1..(Len(h) - 1) :
                  \/ h[k].RecordedAt > h[k + 1].RecordedAt
                  \/ h[k].RecordedAt = h[k + 1].RecordedAt /\ h[k].ID > h[k + 1].ID
    /\ \A p, q \in Paths :
          Lifecycle(p, q) =>
              [k \in 1..4 |-> GetHistoryForPath(log, q)[k].Status]
                  = <<FileStatusDeleted, FileStatusMoved, FileStatusModified, FileStatusCreated>>

\* a history with two rows of the same second and two of different seconds
C8_Witness ==
    \E q \in Queries :
        LET h == GetHistoryForPath(log, q)
        IN  /\ \E k \in 1..(Len(h) - 1) : h[k].RecordedAt = h[k + 1].RecordedAt
            /\ \E k \in 1..(Len(h) - 1) : h[k].RecordedAt > h[k + 1].RecordedAt

\* C9: for a path with rows, the route form, the route form with a leading
\* slash and the path itself have the same history.
C9_PathFormsAgree ==
    \A p \in Paths :
        (\E i \in DOMAIN log : log[i].path = p) =>
            /\ GetHistoryForPath(log, RouteOf(p)) = GetHistoryForPath(log, p)
            /\ GetHistoryForPath(log, WithSlash(RouteOf(p))) = GetHistoryForPath(log, p)

\* no row was recorded at, or moved from, the index file of the route
NoIndexRows(route) ==
    \A i \in DOMAIN log :
        /\ log[i].path # Join(route, IndexMd)
        /\ log[i].previous_path # Ptr(Join(route, IndexMd))

\* C9 as amended: the route form and the route form with a leading slash
\* always have the same history; it is the history of the path itself when
\* the route has no extension of its own and the table holds no row at or
\* from the route's index file.
C9_PathFormsAgreeAmended ==
    \A p \in Paths :
        /\ GetHistoryForPath(log, WithSlash(RouteOf(p))) = GetHistoryForPath(log, RouteOf(p))
        /\ GetHistoryForPath(log, WithSlash(p)) = GetHistoryForPath(log, p)
        /\ (Ext(RouteOf(p)) = <<>> /\ NoIndexRows(RouteOf(p))) =>
              GetHistoryForPath(log, RouteOf(p)) = GetHistoryForPath(log, p)

\* a route with a history of several rows while another route's index file
\* has rows too
C9_Witness ==
    /\ \E p \in Paths :
          /\ NoIndexRows(RouteOf(p))
          /\ Len(GetHistoryForPath(log, WithSlash(RouteOf(p)))) >= 3
    /\ \E p \in Paths :
          /\ ~NoIndexRows(RouteOf(p))
          /\ GetHistoryForPath(log, p) # <<>>

MovedRows == {i \in DOMAIN log : log[i].status = FileStatusMoved}

\* C10: the source and the destination of a move have the same history.
C10_SameHistoryBothWays ==
    \A i \in MovedRows :
        IdsOf(GetHistoryForPath(log, Deref(log[i].previous_path)))
            = IdsOf(GetHistoryForPath(log, log[i].path))

\* C10 as amended: the walk goes backward only.  The history of the
\* destination holds every row of the history of the source; the history of
\* the source holds the move's row and no other row recorded at the
\* destination.
C10_BackwardOnly ==
    \A i \in MovedRows :
        LET fromSource == GetHistoryForPath(log, Deref(log[i].previous_path))
            fromDest == GetHistoryForPath(log, log[i].path)
        IN  /\ IdsOf(fromSource) \subseteq IdsOf(fromDest)
            /\ log[i].id \in IdsOf(fromSource)
            /\ \A k \in DOMAIN fromSource :
                  fromSource[k].Path = log[i].path => fromSource[k].ID = log[i].id

\* a file was moved and then changed at its new path
C10_Witness ==
    \E i \in MovedRows :
        /\ \E j \in DOMAIN log : j > i /\ log[j].path = log[i].path
        /\ \E j \in DOMAIN log : j < i /\ log[j].path = Deref(log[i].previous_path)

----------------------------------------------------------------------------
(* Move or create *)

\* a file is at q, q has no rows, and a path p with rows still holds the
\* content of its latest row, which is the content of the file at q
CopyOfPresent(p, q) ==
    /\ p # q
    /\ fs[q] # NoFile
    /\ q \notin DOMAIN Known
    /\ KnownPresent(p)
    /\ fs[p] = Known[p].Content
    /\ fs[q] = fs[p]

\* the rows the pass appended with status moved name a path that was not in
\* the directory the pass scanned
MovedFromAbsent ==
    \A i \in Appended :
        log[i].status = FileStatusMoved =>
            scanned[Deref(log[i].previous_path)] = NoFile

\* C11 as stated: a new file with the content of a tracked file that is
\* still at its own path is recorded as created, never as moved; a moved
\* row names a previous path that is absent from the scan.
C11_CopyRecordedAsCreated ==
    /\ MovedFromAbsent
    /\ PassDone =>
          \A p, q \in Paths :
              CopyOfPresent(p, q) =>
                  /\ Cardinality(AppendedAt(q)) = 1
                  /\ OnlyRowAt(q).status = FileStatusCreated

\* C11: a new file with the content of a tracked file that is still at its
\* own path is recorded by one row, which is never a move from that file; it
\* is created unless a deletion candidate has its hash and base name, and a
\* moved row names a previous path that is absent from the scan.
C11_CopyNeverMovedFromPresent ==
    /\ MovedFromAbsent
    /\ PassDone =>
          \A p, q \in Paths :
              CopyOfPresent(p, q) =>
                  /\ Cardinality(AppendedAt(q)) = 1
                  /\ OnlyRowAt(q).status \in {FileStatusCreated, FileStatusMoved}
                  /\ OnlyRowAt(q).previous_path # Ptr(p)
                  /\ AppearedAt(q) => OnlyRowAt(q).status = FileStatusCreated

\* a pass recorded as created a copy, under the same base name, of a file
\* that is still in place, and a pass recorded a move
C11_Witness ==
    /\ PassDone
    /\ \E p, q \in Paths :
          /\ CopyOfPresent(p, q)
          /\ Base(p) = Base(q)
          /\ OnlyRowAt(q).status = FileStatusCreated

----------------------------------------------------------------------------
(* Store errors *)

PassFailed == pc = "failed"

\* row i of the table is what the call made it
RowOfCall(i, call) ==
    /\ log[i].path = call.path
    /\ log[i].hash = call.hash
    /\ log[i].content = call.content
    /\ log[i].status = call.status
    /\ log[i].previous_path = call.previousPath

\* the rows the pass appended are the first calls, in order, of a sequence
\* of calls the pass could make on the directory it scanned and the rows
\* it read
AppendedIsPrefixOfPlan ==
    \E calls \in CaptureFileHistoryCalls(scanMarkdownFiles(scanned), Known) :
        /\ Len(log) - startLen <= Len(calls)
        /\ \A i \in Appended : RowOfCall(i, calls[i - startLen])

\* C13: a pass that meets a store error returns it, having appended the
\* rows of the calls before the failing one and nothing else; the failing
\* operation writes nothing, nothing is appended until another pass begins,
\* and without a database handle the pass fails and the table stays empty.
C13_ErrorAbortsPass ==
    /\ [](PassFailed => (pending = <<>> /\ (db # DbNil => AppendedIsPrefixOfPlan)))
    /\ [](db = DbNil => (log = <<>> /\ pc \in {"idle", "failed"}))
    /\ [][(PassFailed' /\ ~PassFailed) => log' = log]_vars
    /\ [][PassFailed => (log' = log \/ pc' = "running")]_vars

\* a pass returned an error after it had appended a row and before the
\* last row it had to append
C13_Witness ==
    /\ PassFailed
    /\ Appended # {}
    /\ \A calls \in CaptureFileHistoryCalls(scanMarkdownFiles(scanned), Known) :
          Len(calls) > Len(log) - startLen

RECURSIVE ApplyCalls(_, _, _)
\* the table after the calls of a pass that meets no error
ApplyCalls(rows, now, calls) ==
    IF calls = <<>> THEN rows
    ELSE ApplyCalls(Append(rows, insertedRow(rows, now, Head(calls))), now, Tail(calls))

\* the pass just completed is the re-run, on an unchanged directory, of a
\* pass that returned an error after it had appended a row
RerunOfPartialPass ==
    /\ PassDone
    /\ abortLen # NoAbort
    /\ abortLen < startLen

\* the latest rows an uninterrupted pass can leave, started on the rows the
\* aborted pass read
UninterruptedOutcomes ==
    LET base == SubSeq(log, 1, abortLen)
    IN  {latestFileSnapshots(ApplyCalls(base, clock, calls)) :
            calls \in CaptureFileHistoryCalls(scanMarkdownFiles(fs), latestFileSnapshots(base))}

\* C14: the re-run of a pass that was aborted after some appends, on the
\* same directory, appends no row at a path the aborted pass appended one
\* at, and leaves latest rows that an uninterrupted pass could have left.
C14_RerunSafe ==
    RerunOfPartialPass =>
        /\ \A i \in Appended : \A j \in (abortLen + 1)..startLen : log[i].path # log[j].path
        /\ latestFileSnapshots(log) \in UninterruptedOutcomes

----------------------------------------------------------------------------
(* Content of the rows *)

\* C15: a created, modified or moved row holds the hash and content of the
\* file as the pass scanned it, a deleted row the hash and content of the
\* latest row the pass read for its path.
C15_RowsStoreContent ==
    \A i \in Appended :
        IF log[i].status = FileStatusDeleted
        THEN /\ log[i].path \in DOMAIN Known
             /\ log[i].hash = Known[log[i].path].Hash
             /\ log[i].content = Known[log[i].path].Content
             /\ log[i].content \in Contents
        ELSE /\ scanned[log[i].path] # NoFile
             /\ log[i].content = scanned[log[i].path]
             /\ log[i].hash = hashBytes(scanned[log[i].path])

\* one pass recorded a deletion and a move, another a modification
C15_Witness ==
    /\ PassDone
    /\ \E i, j \in Appended :
          log[i].status = FileStatusDeleted /\ log[j].status = FileStatusMoved
    /\ \E k \in 1..startLen : log[k].status = FileStatusCreated

----------------------------------------------------------------------------
(* The source of a move *)

\* C20: the previous path of a moved row the pass appended had a latest
\* row that was not a deleted one when the pass began, is absent from the
\* directory the pass scanned, is not the row's own path, and gets no
\* deleted row in the same pass.
C20_MoveSource ==
    \A i \in Appended :
        log[i].status = FileStatusMoved =>
            \E p \in Paths :
                /\ log[i].previous_path = Ptr(p)
                /\ KnownPresent(p)
                /\ scanned[p] = NoFile
                /\ p # log[i].path
                /\ \A j \in Appended :
                      ~(log[j].path = p /\ log[j].status = FileStatusDeleted)

\* of two files of one hash and base name that went away, a pass recorded
\* one as the source of a move and the other as deleted
C20_Witness ==
    /\ PassDone
    /\ \E i, j \in Appended :
          /\ log[i].status = FileStatusMoved
          /\ log[j].status = FileStatusDeleted
          /\ Base(log[j].path) = Base(log[i].path)
          /\ log[j].hash = log[i].hash

----------------------------------------------------------------------------
(* The driver *)

\* C16: at most one CaptureFileHistory call of the driver is in progress,
\* and a pass that is appending rows is that call.
C16_PassesNeverOverlap ==
    /\ inFlight \in {0, 1}
    /\ pc = "running" => inFlight = 1
    /\ inFlight = 1 => drv \in {"pass", "panicked"}

\* a pass is appending rows while a tick and a request wait and Stop has
\* closed the stop channel
C16_Witness ==
    /\ inFlight = 1
    /\ pc = "running"
    /\ tickC = 1
    /\ historyReq = 1
    /\ StopChClosed

\* C17: requestHistorySnapshot can always complete, the channel never holds
\* more than one request, the requests issued since the driver last
\* received are held as that one request, and the driver's receive starts
\* one pass and leaves no request behind.
C17_RequestsCoalesced ==
    /\ [](ev = "handling" => ENABLED requestHistorySnapshot)
    /\ [](historyReq \in {0, 1})
    /\ [](asked > 0 => historyReq = 1)
    /\ [][historyReq' < historyReq =>
            (historyReq' = 0 /\ asked' = 0 /\ inFlight' = inFlight + 1)]_vars

\* two or more requests were issued while a pass was appending rows, and
\* one request is pending
C17_Witness ==
    /\ asked = 2
    /\ historyReq = 1
    /\ pc = "running"
    /\ ~HistoryReqClosed

----------------------------------------------------------------------------
(* Readers of the store during a pass *)

\* C18: no GetHistoryForPath call reads the table between the read of the
\* latest rows and the last append of a pass: the table a call has read
\* never holds some rows of a pass while the pass has more to append.
C18_PassAtomic ==
    ~(/\ pc = "running"
      /\ startLen < Len(log)
      /\ readAt = Len(log))

----------------------------------------------------------------------------
(* The table only grows *)

\* C12: every step leaves the rows of the table as they are and adds rows
\* only at the end, with ids above every id there was; the read of the
\* latest rows at the start of a pass and a GetHistoryForPath call add none.
C12_AppendOnly ==
    [][/\ Len(log') >= Len(log)
       /\ SubSeq(log', 1, Len(log)) = log
       /\ \A i \in (Len(log) + 1)..Len(log') : \A j \in 1..Len(log) : log'[i].id > log[j].id
       /\ readAt' # readAt => log' = log
       /\ (pc # "running" /\ pc' = "running") => log' = log]_vars

\* a GetHistoryForPath call read a table with rows, to which later passes
\* appended rows
C12_Witness ==
    /\ readAt >= 1
    /\ Len(log) > readAt
    /\ startLen >= readAt
    /\ PassDone

----------------------------------------------------------------------------
(* Stop *)

\* C19: once Stop has been called the driver loop returns at last, and it
\* returns with no pass left unfinished.
C19_StopEndsDriver ==
    /\ (stop # "none") ~> (drv = "returned")
    /\ [](drv = "returned" => (pc # "running" /\ inFlight = 0))

----------------------------------------------------------------------------
(* Alias paths *)

\* C21: a pass appends no deleted row at a path that an earlier moved row
\* names as its previous path, unless a file has come into being at that
\* path since.
C21_AliasNeverDeleted ==
    \A i \in Appended :
        (/\ log[i].status = FileStatusDeleted
         /\ log[i].path \in MoveSources(SubSeq(log, 1, startLen)))
            => log[i].path \in recreated

----------------------------------------------------------------------------
(* The latest rows *)

\* C22: latestFileSnapshots has one snapshot for every path with a row and
\* none for any other path, and the snapshot of a path is its row of the
\* highest id, a deleted one included.
C22_LatestPerPath ==
    LET latest == latestFileSnapshots(log)
    IN  /\ DOMAIN latest = {log[i].path : i \in DOMAIN log}
        /\ \A p \in DOMAIN latest :
              \E i \in DOMAIN log :
                  /\ log[i].path = p
                  /\ \A j \in DOMAIN log : log[j].path = p => log[j].id <= log[i].id
                  /\ latest[p].Path = p
                  /\ latest[p].Hash = log[i].hash
                  /\ latest[p].Content = log[i].content
                  /\ latest[p].Status = log[i].status
                  /\ latest[p].PreviousPath = log[i].previous_path

\* the table holds a path with three rows, the last one deleted, a path
\* with one row, and a path has no row
C22_Witness ==
    /\ \E p \in Paths :
          /\ Cardinality({i \in DOMAIN log : log[i].path = p}) = 3
          /\ latestFileSnapshots(log)[p].Status = FileStatusDeleted
    /\ \E p \in Paths : Cardinality({i \in DOMAIN log : log[i].path = p}) = 1
    /\ \E p \in Paths : p \notin DOMAIN latestFileSnapshots(log)

----------------------------------------------------------------------------
(* The previous path, reappearance and repeated deletion *)

\* C23: a row has a previous path if and only if its status is moved.
C23_PreviousPathIffMoved ==
    \A i \in DOMAIN log :
        (log[i].previous_path # Null) <=> (log[i].status = FileStatusMoved)

\* the table holds rows of all four statuses
C23_Witness ==
    \A st \in {FileStatusCreated, FileStatusModified, FileStatusDeleted, FileStatusMoved} :
        \E i \in DOMAIN log : log[i].status = st

\* a file is at p and p's latest row is a deleted one
ReappearedAt(p) ==
    /\ p \in DOMAIN Known
    /\ Known[p].Status = FileStatusDeleted
    /\ fs[p] # NoFile

\* C24: a file at a path whose latest row is deleted is recorded by exactly
\* one row at that path, created and without a previous path, whatever its
\* content.
C24_ReappearanceIsCreated ==
    PassDone =>
        \A p \in Paths :
            ReappearedAt(p) =>
                /\ Cardinality(AppendedAt(p)) = 1
                /\ OnlyRowAt(p).status = FileStatusCreated
                /\ OnlyRowAt(p).previous_path = Null

\* a file came back with the content of the deleted row while a deletion
\* candidate of its hash and base name was gone, and a file came back with
\* another content
C24_Witness ==
    /\ PassDone
    /\ \E p \in Paths :
          /\ ReappearedAt(p)
          /\ hashBytes(fs[p]) = Known[p].Hash
          /\ \E r \in Paths :
                /\ DeletionCandidate(r)
                /\ Known[r].Hash = hashBytes(fs[p])
                /\ Base(r) = Base(p)

\* the other case of reappearance: the file came back with another content
C24_WitnessOtherContent ==
    /\ PassDone
    /\ \E p \in Paths : ReappearedAt(p) /\ hashBytes(fs[p]) # Known[p].Hash

\* C25: a pass appends no deleted row at a path whose latest row is a
\* deleted one, so no two deleted rows of a path follow one another among
\* the rows of that path.
C25_DeletedOnce ==
    /\ \A i \in Appended :
          log[i].status = FileStatusDeleted =>
              ~(log[i].path \in DOMAIN Known /\ Known[log[i].path].Status = FileStatusDeleted)
    /\ \A i, j \in DOMAIN log :
          (/\ i < j
           /\ log[i].path = log[j].path
           /\ log[i].status = FileStatusDeleted
           /\ log[j].status = FileStatusDeleted)
              => \E k \in (i + 1)..(j - 1) : log[k].path = log[i].path

\* a pass that appended rows met a path still gone whose latest row is
\* deleted, and a path has two deleted rows with a row between them
C25_Witness ==
    /\ PassDone
    /\ Appended # {}
    /\ \E p \in DOMAIN Known :
          /\ Known[p].Status = FileStatusDeleted
          /\ p \notin aliasPathsOf(Known)
          /\ fs[p] = NoFile

\* a path was deleted, came back and was deleted again
C25_WitnessTwice ==
    \E p \in Paths :
        Cardinality({i \in DOMAIN log : log[i].path = p /\ log[i].status = FileStatusDeleted}) = 2

----------------------------------------------------------------------------
(* Move detection *)

\* every moved row of the pass is at a path without rows, names a path of
\* the same base name, and has the hash scanned, which is the hash of the
\* latest row of the path it names
MovedRowsAreKeyed ==
    \A i \in Appended :
        log[i].status = FileStatusMoved =>
            LET q == log[i].path
                p == Deref(log[i].previous_path)
            IN  /\ q \notin DOMAIN Known
                /\ p \in DOMAIN Known
                /\ Base(q) = Base(p)
                /\ log[i].hash = hashBytes(scanned[q])
                /\ log[i].hash = Known[p].Hash

\* the file that was at p at the last pass is gone and a file has appeared
\* at q, a path without rows, under another base name or with another
\* content than p's latest row; nothing else that has appeared matches p and
\* nothing else that is gone matches q
ReappearedUnkeyed(p, q) ==
    /\ KnownPresent(p)
    /\ prevScan[p] # NoFile
    /\ fs[p] = NoFile
    /\ q \notin DOMAIN Known
    /\ prevScan[q] = NoFile
    /\ fs[q] # NoFile
    /\ (Base(q) # Base(p) \/ hashBytes(fs[q]) # Known[p].Hash)
    /\ \A r \in Paths \ DOMAIN Known :
          ~(fs[r] # NoFile /\ hashBytes(fs[r]) = Known[p].Hash /\ Base(r) = Base(p))
    /\ \A r \in DOMAIN Known :
          ~(/\ KnownPresent(r) /\ fs[r] = NoFile
            /\ Known[r].Hash = hashBytes(fs[q]) /\ Base(r) = Base(q))

\* C26: a moved row is recorded only at a path without rows, from a path of
\* the same base name whose latest row has the hash scanned; a file that
\* leaves p and appears under another base name or with another content is
\* recorded as created at the new path and deleted at p.
C26_MoveKeyedOnHashAndBase ==
    /\ MovedRowsAreKeyed
    /\ PassDone =>
          \A p, q \in Paths :
              ReappearedUnkeyed(p, q) =>
                  /\ Cardinality(AppendedAt(q)) = 1
                  /\ OnlyRowAt(q).status = FileStatusCreated
                  /\ Cardinality(AppendedAt(p)) = 1
                  /\ OnlyRowAt(p).status = FileStatusDeleted

\* the same with p no previous path of a latest row
C26_UnlessAlias ==
    /\ MovedRowsAreKeyed
    /\ PassDone =>
          \A p, q \in Paths :
              (ReappearedUnkeyed(p, q) /\ p \notin aliasPathsOf(Known)) =>
                  /\ Cardinality(AppendedAt(q)) = 1
                  /\ OnlyRowAt(q).status = FileStatusCreated
                  /\ Cardinality(AppendedAt(p)) = 1
                  /\ OnlyRowAt(p).status = FileStatusDeleted

\* the movement keys there are
MovementKeys == {movementKey(hashBytes(c), p) : c \in Contents, p \in Paths}

\* the deletion candidates of a key, the never-seen paths of a key and the
\* moved rows of the pass of a key
CandidatesOfKey(k) ==
    {p \in Paths : DeletionCandidate(p) /\ movementKey(Known[p].Hash, p) = k}
NewPathsOfKey(k) ==
    {q \in Paths \ DOMAIN Known :
        fs[q] # NoFile /\ movementKey(hashBytes(fs[q]), q) = k}
MovedOfKey(k) ==
    {i \in Appended :
        log[i].status = FileStatusMoved /\ movementKey(log[i].hash, log[i].path) = k}

Min(a, b) == IF a <= b THEN a ELSE b

\* C27: no two moved rows of a pass name the same previous path; for each
\* movement key the pass appends as many moved rows as the smaller of the
\* number of deletion candidates and the number of never-seen paths of that
\* key; every candidate not taken gets one deleted row and every never-seen
\* path not moved to gets one created row.
C27_CandidateConsumedOnce ==
    /\ \A i, j \in Appended :
          (/\ log[i].status = FileStatusMoved
           /\ log[j].status = FileStatusMoved
           /\ log[i].previous_path = log[j].previous_path) => i = j
    /\ PassDone =>
          /\ \A k \in MovementKeys :
                Cardinality(MovedOfKey(k)) =
                    Min(Cardinality(CandidatesOfKey(k)), Cardinality(NewPathsOfKey(k)))
          /\ \A p \in Paths :
                DeletionCandidate(p) =>
                    IF \E i \in Appended : log[i].previous_path = Ptr(p)
                    THEN AppendedAt(p) = {}
                    ELSE /\ Cardinality(AppendedAt(p)) = 1
                         /\ OnlyRowAt(p).status = FileStatusDeleted
          /\ \A q \in Paths \ DOMAIN Known :
                fs[q] # NoFile =>
                    /\ Cardinality(AppendedAt(q)) = 1
                    /\ OnlyRowAt(q).status \in {FileStatusMoved, FileStatusCreated}

\* two deletion candidates of one key met one never-seen path of that key
C27_Witness ==
    /\ PassDone
    /\ \E k \in MovementKeys :
          /\ Cardinality(CandidatesOfKey(k)) = 2
          /\ Cardinality(NewPathsOfKey(k)) = 1

\* one deletion candidate met two never-seen paths of its key
C27_WitnessTwoNew ==
    /\ PassDone
    /\ \E k \in MovementKeys :
          /\ Cardinality(CandidatesOfKey(k)) = 1
          /\ Cardinality(NewPathsOfKey(k)) = 2

\* the id of the latest row of p among the rows the pass read
LatestId(p) ==
    CHOOSE i \in 1..startLen :
        /\ log[i].path = p
        /\ \A j \in 1..startLen : log[j].path = p => log[j].id <= log[i].id

\* C28: among the deletion candidates of one movement key, each moved row
\* of a pass takes as previous path the candidate whose latest row has the
\* lowest id of those no earlier moved row of the pass has taken.
C28_CandidatesInRecordOrder ==
    \A i \in Appended :
        log[i].status = FileStatusMoved =>
            LET p == Deref(log[i].previous_path)
                k == movementKey(log[i].hash, log[i].path)
            IN  \A r \in CandidatesOfKey(k) \ {p} :
                    (\A j \in Appended : j < i => log[j].previous_path # Ptr(r))
                        => LatestId(p) < LatestId(r)

\* status, hash and previous path of the latest row of each path
LatestState(rows) ==
    LET latest == latestFileSnapshots(rows)
    IN  [p \in DOMAIN latest |->
            [Status |-> latest[p].Status, Hash |-> latest[p].Hash,
             PreviousPath |-> latest[p].PreviousPath]]

\* C29: the latest state a pass leaves is the one every order of iterating
\* over the scanned files and the latest rows leads to.
C29_OrderInsignificant ==
    PassDone =>
        \A calls \in CaptureFileHistoryCalls(scanMarkdownFiles(fs), Known) :
            LatestState(ApplyCalls(SubSeq(log, 1, startLen), clock, calls)) = LatestState(log)

----------------------------------------------------------------------------
(* Scan errors *)

\* the directory without the files that cannot be read
WithoutUnreadable(dir) ==
    [p \in DOMAIN dir |-> IF dir[p] = Unreadable THEN NoFile ELSE dir[p]]

\* C30: a file that cannot be read is left out of the snapshot, the pass
\* does not fail, and the rows it appends are those of a pass over the
\* directory without that file.
C30_ScanErrorNeverAborts ==
    /\ \A p \in Paths : fs[p] = Unreadable => p \notin DOMAIN scanMarkdownFiles(fs)
    /\ pc # "failed"
    /\ PassDone =>
          \E calls \in CaptureFileHistoryCalls(scanMarkdownFiles(WithoutUnreadable(fs)), Known) :
              log = ApplyCalls(SubSeq(log, 1, startLen), clock, calls)

\* a pass met a file it could not read, whose path has rows, and appended a
\* row for another file
C30_Witness ==
    /\ PassDone
    /\ \E p \in Paths :
          /\ fs[p] = Unreadable
          /\ KnownPresent(p)
          /\ \E q \in Paths \ {p} :
                fs[q] \notin {NoFile, Unreadable} /\ AppendedAt(q) # {}

----------------------------------------------------------------------------
(* The driver after a failed pass *)

\* every file the pass scanned has a latest row that is not deleted and has
\* the hash scanned
ScannedFilesRecorded ==
    LET latest == latestFileSnapshots(log)
        currentFiles == scanMarkdownFiles(scanned)
    IN  \A p \in DOMAIN currentFiles :
            /\ p \in DOMAIN latest
            /\ latest[p].Status # FileStatusDeleted
            /\ latest[p].Hash = currentFiles[p].Hash

\* C31: when a pass has returned an error the driver goes back to its
\* select; it begins no pass but on a tick or a receive from the request
\* channel; a tick or request waiting then can start a new pass; and when a
\* pass succeeds the table records every file it scanned.
C31_FailedPassKeepsDriver ==
    /\ [][(drv = "pass" /\ pc = "failed" /\ drv' # drv) => drv' \in {"select", "panicked"}]_vars
    /\ [][(pc = "failed" /\ inFlight' > inFlight) =>
            /\ drv = "select"
            /\ (tickC' < tickC \/ historyReq' < historyReq \/ HistoryReqClosed)]_vars
    /\ []((drv = "select" /\ pc = "failed" /\ db # DbNil /\ (tickC > 0 \/ historyReq > 0))
            => ENABLED (DriverTick \/ DriverRequest))
    /\ [](PassDone => ScannedFilesRecorded)

\* a pass failed, the driver went on, and the pass of a later trigger
\* succeeded and appended the rows the failed one had not
C31_Witness ==
    /\ PassDone
    /\ abortLen # NoAbort
    /\ Appended # {}
    /\ drv = "select"
    /\ ~StopChClosed

----------------------------------------------------------------------------
(* The pass at startup *)

\* the driver is inside the first CaptureFileHistory call it made
InStartupPass == passes = 1 /\ drv = "pass"

----------------------------------------------------------------------------
(* The latest rows against the directory *)

\* the paths whose latest row is not a deleted one
BelievedPresent ==
    {p \in DOMAIN latestFileSnapshots(log) :
        latestFileSnapshots(log)[p].Status # FileStatusDeleted}

\* C33: after a pass the paths whose latest row is not deleted are the
\* paths of the files the pass scanned.
C33_BelievedMatchesScan ==
    PassDone => BelievedPresent = DOMAIN scanMarkdownFiles(scanned)

\* the same, but for the paths a moved row of this pass names as its
\* previous path, and those an earlier moved row names where the pass
\* before found no file either
C33_ButForMovedAway ==
    PassDone =>
        /\ DOMAIN scanMarkdownFiles(scanned) \subseteq BelievedPresent
        /\ \A p \in BelievedPresent \ DOMAIN scanMarkdownFiles(scanned) :
              \/ \E i \in Appended : log[i].previous_path = Ptr(p)
              \/ /\ p \in MoveSources(SubSeq(log, 1, startLen))
                 /\ prevScan[p] = NoFile

\* the same, but for all the paths a moved row names as its previous path
C33_ButForMoveSources ==
    PassDone =>
        /\ DOMAIN scanMarkdownFiles(scanned) \subseteq BelievedPresent
        /\ \A p \in BelievedPresent \ DOMAIN scanMarkdownFiles(scanned) :
              p \in MoveSources(log)

\* C34: after a pass every file it scanned has a latest row that is not a
\* deleted one and holds the hash and the content scanned.
C34_ScannedFilesAreLatest ==
    PassDone =>
        \A p \in DOMAIN scanMarkdownFiles(scanned) :
            /\ p \in DOMAIN latestFileSnapshots(log)
            /\ latestFileSnapshots(log)[p].Status # FileStatusDeleted
            /\ latestFileSnapshots(log)[p].Hash = scanMarkdownFiles(scanned)[p].Hash
            /\ latestFileSnapshots(log)[p].Content = scanMarkdownFiles(scanned)[p].Content

\* a pass scanned a file it left without a new row and a file at a path
\* whose latest row was a deleted one
C34_Witness ==
    /\ PassDone
    /\ \E p \in Paths : fs[p] # NoFile /\ KnownPresent(p) /\ AppendedAt(p) = {}
    /\ \E p \in Paths : ReappearedAt(p)

\* a pass scanned a file whose content had changed
C34_WitnessChanged ==
    /\ PassDone
    /\ \E p \in Paths : ChangedAt(p)

----------------------------------------------------------------------------
(* Convergence *)

\* the last pass scanned the directory as it is and appended nothing
Settled ==
    /\ PassDone
    /\ scanned = fs
    /\ Appended = {}

\* C35: when the directory has stopped changing, the passes that follow
\* come to append nothing from some pass on, and those of them that append
\* rows are no more than the paths in the table.
C35_Convergence ==
    /\ <>[]Settled
    /\ [](PassDone => streak <= Cardinality({log[i].path : i \in DOMAIN log}))

\* three passes in a row over an unchanged directory appended rows, and the
\* next one has nothing to append
C35_Witness ==
    /\ streak = 3
    /\ Settled

----------------------------------------------------------------------------
(* The rename relation *)

\* a sequence that holds no element twice
NoRepeat(seq) == \A i, j \in DOMAIN seq : seq[i] = seq[j] => i = j

\* a table no pass writes: two paths, each moved from the other
CyclicRows ==
    LET first == insertedRow(<<>>, 1,
                    Call(AIndexMd, hashBytes("# note"), "# note", FileStatusMoved, Ptr(DIndexMd)))
    IN  <<first,
          insertedRow(<<first>>, 1 + 1,
              Call(DIndexMd, hashBytes("# note"), "# note", FileStatusMoved, Ptr(AIndexMd)))>>

\* C36: a moved row is the first row of its path and names a path that has
\* an earlier row, so no path is reached from itself along previous paths;
\* GetHistoryForPath runs its query at most once for a path, on the table
\* of any pass and on a table with a cycle as well.
C36_RenamesAcyclic ==
    /\ \A i \in DOMAIN log :
          log[i].status = FileStatusMoved =>
              /\ \A j \in DOMAIN log : log[j].path = log[i].path => log[j].id >= log[i].id
              /\ \E j \in DOMAIN log :
                    log[j].path = Deref(log[i].previous_path) /\ log[j].id < log[i].id
              /\ log[i].path \notin BackwardPaths({Deref(log[i].previous_path)})
    /\ \A q \in Queries :
          /\ NoRepeat(WalkHistoryVisits(log, seedHistoryPaths(q), {}, <<>>))
          /\ NoRepeat([k \in DOMAIN GetHistoryForPath(log, q) |-> GetHistoryForPath(log, q)[k].ID])
    /\ WalkHistoryVisits(CyclicRows, seedHistoryPaths(AIndexMd), {}, <<>>) = <<AIndexMd, DIndexMd>>
    /\ Len(GetHistoryForPath(CyclicRows, AIndexMd)) = 1 + 1

\* a file has been moved twice, and the history of its last path runs the
\* query for three paths
C36_Witness ==
    /\ \E i, j \in DOMAIN log :
          /\ log[i].status = FileStatusMoved
          /\ log[j].status = FileStatusMoved
          /\ log[j].previous_path = Ptr(log[i].path)
    /\ \E q \in Paths : Len(WalkHistoryVisits(log, seedHistoryPaths(q), {}, <<>>)) = 3

----------------------------------------------------------------------------
(* The rows of one path *)

\* the indices of the rows of p, and the one that follows i among them
RowsOf(p) == {i \in DOMAIN log : log[i].path = p}
NextRowOf(i) ==
    {j \in RowsOf(log[i].path) :
        j > i /\ \A k \in RowsOf(log[i].path) : k > i => k >= j}

\* C37: the first row of a path is created or moved; a created, modified or
\* moved row is followed, among the rows of its path, by modified or
\* deleted; a deleted row by created; and two rows of a path that follow
\* one another and are both not deleted have different hashes.
C37_StatusSequence ==
    \A i \in DOMAIN log :
        /\ (\A k \in RowsOf(log[i].path) : k >= i) =>
              log[i].status \in {FileStatusCreated, FileStatusMoved}
        /\ \A j \in NextRowOf(i) :
              /\ log[i].status # FileStatusDeleted =>
                    log[j].status \in {FileStatusModified, FileStatusDeleted}
              /\ log[i].status = FileStatusDeleted => log[j].status = FileStatusCreated
              /\ (log[i].status # FileStatusDeleted /\ log[j].status # FileStatusDeleted)
                    => log[i].hash # log[j].hash

\* a path has the rows created, modified, deleted, created
C37_Witness ==
    \E p \in Paths :
        \E a, b, c, d \in RowsOf(p) :
            /\ b \in NextRowOf(a) /\ c \in NextRowOf(b) /\ d \in NextRowOf(c)
            /\ log[a].status = FileStatusCreated
            /\ log[b].status = FileStatusModified
            /\ log[c].status = FileStatusDeleted
            /\ log[d].status = FileStatusCreated

\* a path begins with a moved row, which a modified row follows
C37_WitnessMoved ==
    \E i \in DOMAIN log :
        /\ log[i].status = FileStatusMoved
        /\ \E j \in NextRowOf(i) : log[j].status = FileStatusModified

----------------------------------------------------------------------------
(* Requests and Stop *)

\* C38: requestHistorySnapshot never sends on the request channel once Stop
\* has closed it: the goroutine of the events never panics in its send.
C38_NoSendOnClosedChannel ==
    ev # "panicked"

\* C39: once Stop has closed the stop channel the driver begins no pass.
C39_NoPassAfterStop ==
    [][StopChClosed => inFlight' <= inFlight]_vars

\* C40: while Stop has not been called, a call of requestHistorySnapshot,
\* whether it put a request into the channel or found one there, during a
\* pass or not, is followed by the driver receiving from the channel and
\* beginning a pass.
C40_NoLostTrigger ==
    (asked > 0 /\ stop = "none") ~> (asked = 0 \/ stop # "none")

\* during the second pass of the driver two calls were made, of which the
\* channel holds one request
C40_Witness ==
    /\ asked = 2
    /\ historyReq = 1
    /\ drv = "pass"
    /\ passes = 2
    /\ stop = "none"
====
